---------------------------- MODULE Spec2Model ----------------------------
(***************************************************************************)
(* Model of the collab-api-hub adapters (GmailMailer, GoogleSheetsAppender, *)
(* SlackNotifier, TelegramNotifier) and of the NotificationHub that fans an *)
(* event out over them.                                                     *)
(*                                                                          *)
(* Text is modelled as a sequence of pieces (one-character strings for the  *)
(* column letters, whole words elsewhere); JavaScript's undefined is the    *)
(* value Undef.                                                             *)
(***************************************************************************)
EXTENDS Integers, Sequences, FiniteSets, TLC

VARIABLES
    sheetOp,    \* GoogleSheetsAppender: the last call and what it sent / returned
    notifier,   \* the SlackNotifier or TelegramNotifier in use, as constructed
    notifyOp,   \* its last call: the bodies posted and what the caller got
    adapter,    \* an adapter being constructed: its arguments and what came of it
    adapterOp,  \* the last verify() or send call on it and what the caller got
    network,    \* the transport invocations made so far on behalf of `adapter`
    hub,        \* the NotificationHub as constructed: what its adapters were given
    pc,         \* where the running hub call stands
    log,        \* the adapter calls the running hub call has issued, in order
    caught,     \* the error caught by processCustomerInquiry's catch block
    results,    \* healthCheck's results object
    stats,      \* the counters sendDailyReport was called with
    outcome     \* what the caller of the hub call got

sheetVars == <<sheetOp>>
notifierVars == <<notifier, notifyOp>>
adapterVars == <<adapter, adapterOp, network>>
hubVars == <<hub, pc, log, caught, results, stats, outcome>>

vars == <<sheetVars, notifierVars, adapterVars, hubVars>>

---------------------------------------------------------------------------
(* JavaScript values                                                       *)

Undef == "<undefined>"

\* `!x` for a string-or-undefined x: undefined and "" are falsy.
Falsy(x) == x = Undef \/ x = ""

\* a ?? b
Nullish(a, b) == IF a = Undef THEN b ELSE a

Max(a, b) == IF a >= b THEN a ELSE b

---------------------------------------------------------------------------
(* The parts of the state a specification does not use stay as they start. *)

NoOp == [op |-> "none"]
NoNotifier == [kind |-> "none"]
NoAdapter == [kind |-> "none", state |-> "Unconstructed"]
NoHub == [constructed |-> FALSE]
NoError == [by |-> 0, text |-> <<>>]
NoResults == [k \in {} |-> FALSE]
NoStats == [totalInquiries |-> Undef]

SheetsIdle == sheetOp = NoOp
NotifiersIdle == notifier = NoNotifier /\ notifyOp = NoOp
AdaptersIdle == adapter = NoAdapter /\ adapterOp = NoOp /\ network = 0
HubIdle ==
    /\ hub = NoHub
    /\ pc = "idle"
    /\ log = <<>>
    /\ caught = NoError
    /\ results = NoResults
    /\ stats = NoStats
    /\ outcome = NoOp

---------------------------------------------------------------------------
(* Bounds                                                                  *)

MaxIndex == 710      \* getColumnName is applied to 0..MaxIndex
MaxRowLen == 27      \* longest row of a batch
MaxRows == 2         \* most rows of a batch

---------------------------------------------------------------------------
(* What a transport call can do: succeed, or fail with an error object.    *)
(* An error carries the transport's own text (error.message) and, when the *)
(* service answered, the response body (error.response.data): a text, or   *)
(* an object whose error field (error.message for the spreadsheet service, *)
(* description for the bot service) holds the structured message.          *)

NoData == [kind |-> "none", text |-> Undef]
TextData(t) == [kind |-> "text", text |-> t]
ObjectData(t) == [kind |-> "object", text |-> t]

ResponseData ==
    {NoData, TextData(""), TextData("denied"), ObjectData(Undef), ObjectData("denied")}

TransportErrors == [message : {Undef, "timeout"}, data : ResponseData]

\* error?.response?.data?.<field>: the structured message of an object body
StructuredMessage(e) == IF e.data.kind = "object" THEN e.data.text ELSE Undef

\* What the service answers to a call it accepts (res.data, or the mail receipt).
Responses == {"accepted", "queued"}

Ok(data) == [ok |-> TRUE, data |-> data]
Failure(e) == [ok |-> FALSE, error |-> e]
Outcomes == {Ok(d) : d \in Responses} \cup {Failure(e) : e \in TransportErrors}

\* The transport called again when the first call failed.
AttemptsRetried(request, out) ==
    IF out.ok THEN <<request>> ELSE <<request, request>>

\* The transport invocations of one `try { await <transport call> } catch`:
\* the one call, whatever comes of it.
Attempts(request, out) == <<request>>

\* `${error}` of an Error object
ErrorToString(e) ==
    IF Falsy(e.message) THEN <<"Error">> ELSE <<"Error: ", e.message>>

---------------------------------------------------------------------------
(* GoogleSheetsAppender                                                    *)

UpperCase == <<"A", "B", "C", "D", "E", "F", "G", "H", "I", "J", "K", "L", "M",
               "N", "O", "P", "Q", "R", "S", "T", "U", "V", "W", "X", "Y", "Z">>

\* String.fromCharCode for the codes 65..90
fromCharCode(c) == UpperCase[c - 64]

\* The loop without its `i--`: plain base 26, whose digit 0 prints as "A".
RECURSIVE columnLoopNoDecrement(_, _)
columnLoopNoDecrement(i, result) ==
    IF i > 0
    THEN columnLoopNoDecrement(i \div 26, <<fromCharCode(65 + (i % 26))>> \o result)
    ELSE result

RECURSIVE columnLoop(_, _)
columnLoop(i, result) ==
    IF i > 0
    THEN LET j == i - 1
         IN  columnLoop(j \div 26, <<fromCharCode(65 + (j % 26))>> \o result)
    ELSE result

getColumnName(index) == columnLoop(Max(1, index), <<>>)

rangeForWidth(sheetName, width) ==
    <<sheetName, "!", "A", "1", ":">> \o getColumnName(Max(1, width)) \o <<"1">>

\* The adapter in use: new GoogleSheetsAppender(email, key, id) with no options.
SheetConfig ==
    [spreadsheetId |-> "sheet-id",
     defaultSheet |-> Nullish(Undef, "Sheet1"),
     valueInputOption |-> Nullish(Undef, "RAW")]

\* error?.response?.data?.error?.message || error?.message || `${error}` || 'Unknown ...'
SheetsErrorMessage(e) ==
    IF ~Falsy(StructuredMessage(e)) THEN <<StructuredMessage(e)>>
    ELSE IF ~Falsy(e.message) THEN <<e.message>>
    ELSE IF ErrorToString(e) # <<>> THEN ErrorToString(e)
    ELSE <<"Unknown GoogleSheets API error">>

SheetsError(e) == <<"Google Sheets API error: ">> \o SheetsErrorMessage(e)

\* rows.reduce((m, r) => Math.max(m, r.length), 0)
RECURSIVE reduceMaxLen(_, _)
reduceMaxLen(rows, m) ==
    IF rows = <<>> THEN m
    ELSE reduceMaxLen(Tail(rows), Max(m, Len(Head(rows))))

\* The width taken from the first row instead of the widest one.
addRowsWidthFirstRow(rows) ==
    IF rows = <<>> \/ Len(rows[1]) = 0 THEN 1 ELSE Len(rows[1])

addRowsWidth(rows) ==
    LET m == reduceMaxLen(rows, 0) IN IF m = 0 THEN 1 ELSE m

addRowWidth(data) == Len(data)

AppendRequest(range, values) ==
    [spreadsheetId |-> SheetConfig.spreadsheetId,
     range |-> range,
     valueInputOption |-> SheetConfig.valueInputOption,
     values |-> values]

\* What the caller gets from one append: res.data, or the wrapped error.
AppendResult(out) ==
    IF out.ok THEN [returned |-> TRUE, data |-> out.data]
    ELSE [returned |-> FALSE, thrown |-> SheetsError(out.error)]

Row(n) == [k \in 1..n |-> "x"]
Rows == {Row(n) : n \in 0..MaxRowLen}
Batches == UNION {[1..n -> Rows] : n \in 0..MaxRows}
SheetArgs == {Undef, "Log"}

SheetsInit ==
    /\ sheetOp = NoOp
    /\ NotifiersIdle
    /\ AdaptersIdle
    /\ HubIdle

\* Every call is independent of the calls before it (the adapter keeps no state
\* between calls), so one call is followed from the adapter as constructed.
\* addRow(data, sheetName = this.defaultSheet)
AddRow ==
    /\ sheetOp.op = "none"
    /\ \E data \in Rows, arg \in SheetArgs, out \in Outcomes :
        LET sheetName == IF arg = Undef THEN SheetConfig.defaultSheet ELSE arg
            range == rangeForWidth(sheetName, addRowWidth(data))
        IN  sheetOp' = [op |-> "addRow", rows |-> <<data>>, sheetName |-> sheetName,
                        appends |-> Attempts(AppendRequest(range, <<data>>), out),
                        reply |-> out,
                        result |-> AppendResult(out)]
    /\ UNCHANGED <<notifierVars, adapterVars, hubVars>>

\* addRows(rows, sheetName = this.defaultSheet)
AddRows ==
    /\ sheetOp.op = "none"
    /\ \E rows \in Batches, arg \in SheetArgs, out \in Outcomes :
        LET sheetName == IF arg = Undef THEN SheetConfig.defaultSheet ELSE arg
            range == rangeForWidth(sheetName, addRowsWidth(rows))
        IN  sheetOp' = [op |-> "addRows", rows |-> rows, sheetName |-> sheetName,
                        appends |-> Attempts(AppendRequest(range, rows), out),
                        reply |-> out,
                        result |-> AppendResult(out)]
    /\ UNCHANGED <<notifierVars, adapterVars, hubVars>>

\* getColumnName(index), the helper on its own
GetColumnName ==
    /\ sheetOp.op = "none"
    /\ \E index \in 0..MaxIndex :
        sheetOp' = [op |-> "getColumnName", index |-> index,
                    name |-> getColumnName(index)]
    /\ UNCHANGED <<notifierVars, adapterVars, hubVars>>

SheetsNext == AddRow \/ AddRows \/ GetColumnName

SpecSheets == SheetsInit /\ [][SheetsNext]_vars

---------------------------------------------------------------------------
(* Column letters, read as a number and compared                           *)

Ord(ch) == CHOOSE k \in 1..26 : UpperCase[k] = ch

\* s comes before t: shorter, or of the same length and first in the alphabet
ShortLexLess(s, t) ==
    \/ Len(s) < Len(t)
    \/ /\ Len(s) = Len(t)
       /\ \E k \in 1..Len(s) :
            /\ \A h \in 1..(k - 1) : s[h] = t[h]
            /\ Ord(s[k]) < Ord(t[k])

Letters == {UpperCase[k] : k \in 1..26}
WordsUpToTwo == {<<a>> : a \in Letters} \cup {<<a, b>> : a, b \in Letters}

\* The names of the columns 1..702, computed once.
NamesUpToZZ == {getColumnName(j) : j \in 1..702}

\* C9: getColumnName is the bijective base-26 encoding of a 1-based index:
\* 1 -> A, 26 -> Z, 27 -> AA, 702 -> ZZ, 703 -> AAA; no other index of the range
\* has the same name, every larger index has a later name (longer, or as long
\* and alphabetically greater), and the indices 1..702 give exactly the words
\* of one or two letters.
C9_ColumnEncodingBijective ==
    (sheetOp.op = "getColumnName" /\ sheetOp.index >= 1) =>
        /\ sheetOp.index = 1 => sheetOp.name = <<"A">>
        /\ sheetOp.index = 26 => sheetOp.name = <<"Z">>
        /\ sheetOp.index = 27 => sheetOp.name = <<"A", "A">>
        /\ sheetOp.index = 702 => sheetOp.name = <<"Z", "Z">>
        /\ sheetOp.index = 703 => sheetOp.name = <<"A", "A", "A">>
        /\ Len(sheetOp.name) >= 1
        /\ \A k \in 1..Len(sheetOp.name) : sheetOp.name[k] \in Letters
        /\ \A j \in 1..MaxIndex :
              /\ j # sheetOp.index => getColumnName(j) # sheetOp.name
              /\ j > sheetOp.index => ShortLexLess(sheetOp.name, getColumnName(j))
        /\ NamesUpToZZ = WordsUpToTwo

C9_Witness ==
    /\ sheetOp.op = "getColumnName"
    /\ sheetOp.index = 703
    /\ sheetOp.name = <<"A", "A", "A">>

\* The longest row of a batch, at least 1.
WidestRow(rows) ==
    CHOOSE w \in {1} \cup {Len(rows[k]) : k \in DOMAIN rows} :
        \A k \in DOMAIN rows : Len(rows[k]) <= w

\* C10: addRows (and addRow, for its one row) sends one append whose range is
\* <sheet>!A1:<col>1, <col> being the name of the column of the longest row of
\* the batch, and of column 1 when the batch or all its rows are empty; rows of
\* 2 and 3 cells give a range ending at column C.
C10_RangeIsWidestRow ==
    sheetOp.op \in {"addRow", "addRows"} =>
        /\ Len(sheetOp.appends) = 1
        /\ sheetOp.appends[1].range =
              <<sheetOp.sheetName, "!", "A", "1", ":">>
                  \o getColumnName(WidestRow(sheetOp.rows)) \o <<"1">>
        /\ sheetOp.appends[1].values = sheetOp.rows
        /\ (sheetOp.rows = <<Row(2), Row(3)>>) =>
              sheetOp.appends[1].range[6] = "C" /\ Len(sheetOp.appends[1].range) = 7

C10_Witness ==
    /\ sheetOp.op = "addRows"
    /\ sheetOp.rows = <<Row(2), Row(3)>>
    /\ sheetOp.appends[1].range = <<"Sheet1", "!", "A", "1", ":", "C", "1">>

C10_WitnessEmpty ==
    /\ sheetOp.op = "addRows"
    /\ sheetOp.rows = <<Row(0), Row(0)>>
    /\ sheetOp.appends[1].range = <<"Sheet1", "!", "A", "1", ":", "A", "1">>

---------------------------------------------------------------------------
(* SlackNotifier and TelegramNotifier                                      *)

\* A message object: the fields it carries, each with a value or undefined.
FieldValues == {Undef, "a", "b"}
Objects(keys) == UNION {[ks -> FieldValues] : ks \in SUBSET keys}

SlackKeys == {"text", "username", "channel"}
SlackDefaultKeys == {"username", "channel"}
TelegramKeys == {"chat_id", "text", "parse_mode"}
TelegramDefaultKeys == {"chat_id", "parse_mode"}

\* obj.k
Get(obj, k) == IF k \in DOMAIN obj THEN obj[k] ELSE Undef

\* The spread with the first object's fields winning.
SpreadFirstWins(a, b) ==
    [k \in DOMAIN a \cup DOMAIN b |-> IF k \in DOMAIN a THEN a[k] ELSE b[k]]

\* { ...a, ...b }
Spread(a, b) ==
    [k \in DOMAIN a \cup DOMAIN b |-> IF k \in DOMAIN b THEN b[k] ELSE a[k]]

\* An optional object is <<>> when left out and <<obj>> when given;
\* spreading one that was left out adds nothing.
NoObject == <<>>
Given(obj) == <<obj>>
EmptyObject == [k \in {} |-> Undef]
OrEmpty(opt) == IF opt = NoObject THEN EmptyObject ELSE opt[1]

\* const body = { ...(this.defaults ?? {}), ...payload }
SlackBody(defaults, payload) == Spread(OrEmpty(defaults), payload)

\* const body = { chat_id: payload.chat_id ?? this.defaultChatId, ...this.defaults, ...payload }
TelegramBody(defaultChatId, defaults, payload) ==
    Spread(Spread([chat_id |-> Nullish(Get(payload, "chat_id"), defaultChatId)],
                  OrEmpty(defaults)),
           payload)

\* (error?.response?.data && String(error.response.data)) || error?.message || `${error}` || ...
SlackErrorMessage(e) ==
    IF e.data.kind = "object" THEN <<"[object Object]">>
    ELSE IF e.data.kind = "text" /\ ~Falsy(e.data.text) THEN <<e.data.text>>
    ELSE IF ~Falsy(e.message) THEN <<e.message>>
    ELSE IF ErrorToString(e) # <<>> THEN ErrorToString(e)
    ELSE <<"Unknown Slack API error">>

SlackError(e) == <<"Slack notification failed: ">> \o SlackErrorMessage(e)

\* error?.response?.data?.description || error?.message || `${error}` || ...
TelegramErrorMessage(e) ==
    IF ~Falsy(StructuredMessage(e)) THEN <<StructuredMessage(e)>>
    ELSE IF ~Falsy(e.message) THEN <<e.message>>
    ELSE IF ErrorToString(e) # <<>> THEN ErrorToString(e)
    ELSE <<"Unknown Telegram API error">>

TelegramError(e) == <<"Telegram notification failed: ">> \o TelegramErrorMessage(e)

\* SlackNotifier.send: one post of the merged body to the webhook.
SlackSend(n, payload, out) ==
    [op |-> "send", payload |-> payload,
     posts |-> Attempts([to |-> n.webhookUrl, body |-> SlackBody(n.defaults, payload)],
                        out),
     reply |-> out,
     result |-> IF out.ok THEN [returned |-> TRUE, data |-> out.data]
                ELSE [returned |-> FALSE, thrown |-> SlackError(out.error)]]

\* TelegramNotifier.send: one post of the merged body to /sendMessage.
TelegramSend(n, payload, out) ==
    [op |-> "send", payload |-> payload,
     posts |-> Attempts([to |-> "/sendMessage",
                         body |-> TelegramBody(n.defaultChatId, n.defaults, payload)],
                        out),
     reply |-> out,
     result |-> IF out.ok THEN [returned |-> TRUE, data |-> out.data]
                ELSE [returned |-> FALSE, thrown |-> TelegramError(out.error)]]

Send(n, payload, out) ==
    IF n.kind = "slack" THEN SlackSend(n, payload, out) ELSE TelegramSend(n, payload, out)

PayloadsOf(n) == IF n.kind = "slack" THEN Objects(SlackKeys) ELSE Objects(TelegramKeys)

\* ping(text = '... verification ping')
PingText(n, arg) ==
    IF arg # Undef THEN arg
    ELSE IF n.kind = "slack" THEN "Slack webhook verification ping"
    ELSE "Telegram webhook verification ping"

\* new SlackNotifier(webhookUrl, { defaults }) or new TelegramNotifier(token, chatId, { defaults })
NotifiersInit ==
    /\ SheetsIdle
    /\ AdaptersIdle
    /\ HubIdle
    /\ notifyOp = NoOp
    /\ \/ \E d \in {NoObject} \cup {Given(o) : o \in Objects(SlackDefaultKeys)} :
            notifier = [kind |-> "slack", webhookUrl |-> "webhook-url", defaults |-> d]
       \/ \E d \in {NoObject} \cup {Given(o) : o \in Objects(TelegramDefaultKeys)} :
            notifier = [kind |-> "telegram", token |-> "bot-token",
                        defaultChatId |-> "chat-0", defaults |-> d]

NotifierSend ==
    /\ notifier # NoNotifier
    /\ notifyOp = NoOp
    /\ \E payload \in PayloadsOf(notifier), out \in Outcomes :
        notifyOp' = Send(notifier, payload, out)
    /\ UNCHANGED <<sheetVars, notifier, adapterVars, hubVars>>

\* sendNotification(message) is send({ text: message })
NotifierSendNotification ==
    /\ notifier # NoNotifier
    /\ notifyOp = NoOp
    /\ \E message \in {"a", "b"}, out \in Outcomes :
        notifyOp' = [Send(notifier, [text |-> message], out)
                        EXCEPT !.op = "sendNotification"]
    /\ UNCHANGED <<sheetVars, notifier, adapterVars, hubVars>>

\* ping(text) is send({ text })
NotifierPing ==
    /\ notifier # NoNotifier
    /\ notifyOp = NoOp
    /\ \E arg \in {Undef, "Health check ping"}, out \in Outcomes :
        notifyOp' = [Send(notifier, [text |-> PingText(notifier, arg)], out)
                        EXCEPT !.op = "ping"]
    /\ UNCHANGED <<sheetVars, notifier, adapterVars, hubVars>>

NotifiersNext == NotifierSend \/ NotifierSendNotification \/ NotifierPing

SpecNotifiers == NotifiersInit /\ [][NotifiersNext]_vars

---------------------------------------------------------------------------
(* Merging of the adapter's defaults under the payload                     *)

AllKeys == SlackKeys \cup TelegramKeys

\* P[k] if k is in P, else D[k] if k is in D, else unset
Effective(D, P, k) ==
    IF k \in DOMAIN P THEN P[k]
    ELSE IF k \in DOMAIN D THEN D[k]
    ELSE Undef

Sent == notifyOp.op \in {"send", "sendNotification", "ping"}
PostedBody == notifyOp.posts[1].body

\* C7, as claimed: every field of the posted body is the payload's if the
\* payload has it, else the defaults' if they have it, else unset.
C7_EveryFieldMerged ==
    Sent =>
        \A k \in AllKeys :
            Get(PostedBody, k) = Effective(OrEmpty(notifier.defaults), notifyOp.payload, k)

\* C7, amended: the same for every field but the bot body's chat_id, which is
\* the adapter's configured chat id when neither the payload nor the defaults
\* carry it.
C7_FieldsMergedButChatId ==
    Sent =>
        \A k \in AllKeys :
            LET D == OrEmpty(notifier.defaults)
                P == notifyOp.payload
            IN  IF /\ notifier.kind = "telegram"
                   /\ k = "chat_id"
                   /\ k \notin DOMAIN P
                   /\ k \notin DOMAIN D
                THEN Get(PostedBody, k) = notifier.defaultChatId
                ELSE Get(PostedBody, k) = Effective(D, P, k)

\* an overlapping field (username, the payload's wins) and one only the
\* defaults have (channel)
C7_Witness ==
    /\ Sent
    /\ notifier.kind = "slack"
    /\ notifier.defaults = Given([username |-> "a", channel |-> "a"])
    /\ notifyOp.payload = [text |-> "a", username |-> "b"]
    /\ PostedBody = [text |-> "a", username |-> "b", channel |-> "a"]

\* C8: the chat_id posted by TelegramNotifier.send is the payload's chat id when
\* the payload supplies one and the adapter's configured chat id otherwise; it
\* is never unset.
C8_ChatIdResolved ==
    (Sent /\ notifier.kind = "telegram") =>
        /\ Get(PostedBody, "chat_id") =
              IF Get(notifyOp.payload, "chat_id") # Undef
              THEN notifyOp.payload.chat_id
              ELSE notifier.defaultChatId
        /\ Get(PostedBody, "chat_id") # Undef

---------------------------------------------------------------------------
(* Construction of the four adapters, and verify()                         *)

\* What a caller may pass for a required argument: nothing, "", or a text.
ArgValues == {Undef, "", " ", "v"}

ConfigError(kind, args, text) ==
    [kind |-> kind, state |-> "ConfigError", args |-> args, thrown |-> text,
     client |-> "none"]

\* The constructor ran to its end: the fields are set and the transport client
\* (nodemailer transporter, googleapis client, axios instance) is created.
Ready(kind, args) ==
    [kind |-> kind, state |-> "Ready", args |-> args, thrown |-> <<>>,
     client |-> "created"]

\* The check with && for ||: only a missing user AND a missing pass are refused.
GmailMailerNeedsOnlyOne(user, pass) ==
    LET args == [user |-> user, pass |-> pass]
    IN  IF Falsy(user) /\ Falsy(pass)
        THEN ConfigError("mail", args, <<"GmailMailer: user and pass are required">>)
        ELSE Ready("mail", args)

\* new GmailMailer(user, pass)
GmailMailer(user, pass) ==
    LET args == [user |-> user, pass |-> pass]
    IN  IF Falsy(user) \/ Falsy(pass)
        THEN ConfigError("mail", args, <<"GmailMailer: user and pass are required">>)
        ELSE Ready("mail", args)

\* new GoogleSheetsAppender(clientEmail, privateKey, spreadsheetId)
GoogleSheetsAppender(clientEmail, privateKey, spreadsheetId) ==
    LET args == [clientEmail |-> clientEmail, privateKey |-> privateKey,
                 spreadsheetId |-> spreadsheetId]
    IN  IF Falsy(clientEmail)
        THEN ConfigError("sheet", args, <<"GoogleSheetsAppender: clientEmail is required">>)
        ELSE IF Falsy(privateKey)
        THEN ConfigError("sheet", args, <<"GoogleSheetsAppender: privateKey is required">>)
        ELSE IF Falsy(spreadsheetId)
        THEN ConfigError("sheet", args, <<"GoogleSheetsAppender: spreadsheetId is required">>)
        ELSE Ready("sheet", args)

\* new SlackNotifier(webhookUrl)
SlackNotifier(webhookUrl) ==
    LET args == [webhookUrl |-> webhookUrl]
    IN  IF Falsy(webhookUrl)
        THEN ConfigError("chat", args, <<"SlackNotifier: webhookUrl is required">>)
        ELSE Ready("chat", args)

\* new TelegramNotifier(token, chatId)
TelegramNotifier(token, chatId) ==
    LET args == [token |-> token, chatId |-> chatId]
    IN  IF Falsy(token)
        THEN ConfigError("bot", args, <<"TelegramNotifier: token is required">>)
        ELSE IF Falsy(chatId)
        THEN ConfigError("bot", args, <<"TelegramNotifier: chatId is required">>)
        ELSE Ready("bot", args)

NothingThrown == [message |-> Undef, data |-> NoData]

\* GmailMailer.verify: await this.transporter.verify(), nothing caught
GmailVerify(out) ==
    IF out.ok THEN [returned |-> TRUE, value |-> Undef, thrown |-> NothingThrown]
    ELSE [returned |-> FALSE, value |-> Undef, thrown |-> out.error]

\* verify with its catch block letting the error through
SheetsVerifyRethrows(out) ==
    IF out.ok THEN [returned |-> TRUE, value |-> "true", thrown |-> NothingThrown]
    ELSE [returned |-> FALSE, value |-> Undef, thrown |-> out.error]

\* GoogleSheetsAppender.verify: true, or false from the catch block
SheetsVerify(out) ==
    [returned |-> TRUE, value |-> IF out.ok THEN "true" ELSE "false", thrown |-> NothingThrown]

AdaptersInit ==
    /\ SheetsIdle
    /\ NotifiersIdle
    /\ HubIdle
    /\ adapter = NoAdapter
    /\ adapterOp = NoOp
    /\ network = 0

ConstructMail ==
    /\ adapter = NoAdapter
    /\ \E user, pass \in ArgValues : adapter' = GmailMailer(user, pass)
    /\ UNCHANGED <<sheetVars, notifierVars, adapterOp, network, hubVars>>

ConstructSheets ==
    /\ adapter = NoAdapter
    /\ \E clientEmail, privateKey, spreadsheetId \in ArgValues :
        adapter' = GoogleSheetsAppender(clientEmail, privateKey, spreadsheetId)
    /\ UNCHANGED <<sheetVars, notifierVars, adapterOp, network, hubVars>>

ConstructSlack ==
    /\ adapter = NoAdapter
    /\ \E webhookUrl \in ArgValues : adapter' = SlackNotifier(webhookUrl)
    /\ UNCHANGED <<sheetVars, notifierVars, adapterOp, network, hubVars>>

ConstructTelegram ==
    /\ adapter = NoAdapter
    /\ \E token, chatId \in ArgValues : adapter' = TelegramNotifier(token, chatId)
    /\ UNCHANGED <<sheetVars, notifierVars, adapterOp, network, hubVars>>

\* A method can be called only on an adapter whose constructor returned.
VerifyMail ==
    /\ adapter.kind = "mail" /\ adapter.state = "Ready"
    /\ adapterOp = NoOp
    /\ \E out \in Outcomes :
        adapterOp' = [op |-> "verify", probe |-> out, result |-> GmailVerify(out)]
    /\ network' = network + 1
    /\ UNCHANGED <<sheetVars, notifierVars, adapter, hubVars>>

VerifySheets ==
    /\ adapter.kind = "sheet" /\ adapter.state = "Ready"
    /\ adapterOp = NoOp
    /\ \E out \in Outcomes :
        adapterOp' = [op |-> "verify", probe |-> out, result |-> SheetsVerify(out)]
    /\ network' = network + 1
    /\ UNCHANGED <<sheetVars, notifierVars, adapter, hubVars>>

\* error?.message || `${error}` || 'Unknown gmail sending error'
GmailErrorMessage(e) ==
    IF ~Falsy(e.message) THEN <<e.message>>
    ELSE IF ErrorToString(e) # <<>> THEN ErrorToString(e)
    ELSE <<"Unknown gmail sending error">>

GmailError(e) == <<"Gmail Email sending failed: ">> \o GmailErrorMessage(e)

\* The mail transport reports a failure by its own text alone: there is no
\* response body to read a structured message from.
MailOutcomes == {out \in Outcomes : out.ok \/ out.error.data = NoData}

MailKeys == {"to", "from", "subject", "text"}

\* const mailOptions = { from: opts.from ?? this.user, to: opts.to ?? this.user,
\*                       subject: opts.subject ?? '...', text: opts.text, html: opts.html }
MailOptions(user, opts) ==
    [from |-> Nullish(Get(opts, "from"), user),
     to |-> Nullish(Get(opts, "to"), user),
     subject |-> Nullish(Get(opts, "subject"), "Your Customer Information"),
     text |-> Get(opts, "text"),
     html |-> Get(opts, "html")]

\* GmailMailer.send: one sendMail of the envelope; the receipt, or the wrapped error.
GmailSend(user, opts, out) ==
    [op |-> "send", opts |-> opts,
     mails |-> Attempts(MailOptions(user, opts), out),
     reply |-> out,
     result |-> IF out.ok THEN [returned |-> TRUE, data |-> out.data]
                ELSE [returned |-> FALSE, thrown |-> GmailError(out.error)]]

MailSend ==
    /\ adapter.kind = "mail" /\ adapter.state = "Ready"
    /\ adapterOp = NoOp
    /\ \E opts \in Objects(MailKeys), out \in MailOutcomes :
        /\ adapterOp' = GmailSend(adapter.args.user, opts, out)
        /\ network' = network + Len(adapterOp'.mails)
    /\ UNCHANGED <<sheetVars, notifierVars, adapter, hubVars>>

\* sendEmail(message) is send({ text: message, subject: '...', to: this.user, from: this.user })
MailSendEmail ==
    /\ adapter.kind = "mail" /\ adapter.state = "Ready"
    /\ adapterOp = NoOp
    /\ \E message \in {"a", "b"}, out \in MailOutcomes :
        /\ adapterOp' = [GmailSend(adapter.args.user,
                                   [text |-> message,
                                    subject |-> "Your Customer Information",
                                    to |-> adapter.args.user,
                                    from |-> adapter.args.user],
                                   out)
                            EXCEPT !.op = "sendEmail"]
        /\ network' = network + Len(adapterOp'.mails)
    /\ UNCHANGED <<sheetVars, notifierVars, adapter, hubVars>>

AdaptersNext ==
    \/ ConstructMail \/ ConstructSheets \/ ConstructSlack \/ ConstructTelegram
    \/ VerifyMail \/ VerifySheets
    \/ MailSend \/ MailSendEmail

SpecAdapters == AdaptersInit /\ [][AdaptersNext]_vars

\* The required arguments of each adapter.
RequiredArgs(kind) ==
    IF kind = "mail" THEN {"user", "pass"}
    ELSE IF kind = "sheet" THEN {"clientEmail", "privateKey", "spreadsheetId"}
    ELSE IF kind = "chat" THEN {"webhookUrl"}
    ELSE {"token", "chatId"}

\* C6: constructing an adapter with a required argument missing or empty ends
\* in a configuration error, with no adapter Ready, no transport client created
\* and no transport invocation made; with every required argument non-empty
\* the adapter is Ready.
C6_ConstructionValidates ==
    adapter.state # "Unconstructed" =>
        /\ DOMAIN adapter.args = RequiredArgs(adapter.kind)
        /\ IF \E f \in RequiredArgs(adapter.kind) : adapter.args[f] \in {Undef, ""}
           THEN /\ adapter.state = "ConfigError"
                /\ adapter.thrown # <<>>
                /\ adapter.client = "none"
                /\ network = 0
                /\ adapterOp = NoOp
           ELSE adapter.state = "Ready" /\ adapter.thrown = <<>>

C6_Witness ==
    /\ adapter.kind = "mail"
    /\ adapter.args = [user |-> "v", pass |-> ""]
    /\ adapter.state = "ConfigError"

C6_WitnessReady ==
    /\ adapter.kind = "sheet"
    /\ adapter.state = "Ready"
    /\ network = 1

\* C5, as claimed: verify() of the mail and of the sheet adapter never throws; a
\* failed probe is reported as false.
C5_VerifyNeverThrows ==
    adapterOp.op = "verify" =>
        /\ adapterOp.result.returned
        /\ ~adapterOp.probe.ok => adapterOp.result.value = "false"

\* C5, amended: the sheet adapter's verify() never throws and gives true or
\* false as its probe succeeded or failed; the mail adapter's verify() gives no
\* value and raises the transport's own error when its probe fails.
C5_SheetVerifyNeverThrows ==
    adapterOp.op = "verify" =>
        /\ adapter.kind = "sheet" =>
              /\ adapterOp.result.returned
              /\ adapterOp.result.value = IF adapterOp.probe.ok THEN "true" ELSE "false"
        /\ adapter.kind = "mail" =>
              /\ adapterOp.result.returned = adapterOp.probe.ok
              /\ adapterOp.result.value = Undef
              /\ ~adapterOp.probe.ok => adapterOp.result.thrown = adapterOp.probe.error

C5_Witness ==
    /\ adapterOp.op = "verify"
    /\ adapter.kind = "sheet"
    /\ ~adapterOp.probe.ok
    /\ adapterOp.result.returned
    /\ adapterOp.result.value = "false"

---------------------------------------------------------------------------
(* The send operations of the four adapters, side by side: one adapter is  *)
(* constructed and one of its send-type operations is called.              *)

SendsInit ==
    \/ NotifiersInit
    \/ /\ SheetsIdle
       /\ NotifiersIdle
       /\ HubIdle
       /\ adapterOp = NoOp
       /\ network = 0
       /\ adapter \in {GmailMailer("user@mail", "app-pass"),
                       GoogleSheetsAppender("svc@mail", "key", "sheet-id")}

SheetAddRow == adapter.kind = "sheet" /\ adapter.state = "Ready" /\ AddRow

SheetAddRows == adapter.kind = "sheet" /\ adapter.state = "Ready" /\ AddRows

SendsNext ==
    \/ SheetAddRow \/ SheetAddRows
    \/ MailSend \/ MailSendEmail
    \/ NotifierSend \/ NotifierSendNotification \/ NotifierPing

SpecSends == SendsInit /\ [][SendsNext]_vars

SendKinds == {"send", "sendNotification", "sendEmail", "ping", "addRow", "addRows"}

\* The send-type calls made so far: the channel, how many times the transport
\* was invoked, what the transport did, and what the caller got.
SendCalls ==
    (IF sheetOp.op \in SendKinds
     THEN {[channel |-> "sheet", op |-> sheetOp.op, invocations |-> Len(sheetOp.appends),
            reply |-> sheetOp.reply, result |-> sheetOp.result]}
     ELSE {})
    \cup
    (IF notifyOp.op \in SendKinds
     THEN {[channel |-> notifier.kind, op |-> notifyOp.op,
            invocations |-> Len(notifyOp.posts),
            reply |-> notifyOp.reply, result |-> notifyOp.result]}
     ELSE {})
    \cup
    (IF adapterOp.op \in SendKinds
     THEN {[channel |-> "mail", op |-> adapterOp.op, invocations |-> Len(adapterOp.mails),
            reply |-> adapterOp.reply, result |-> adapterOp.result]}
     ELSE {})

FailedCalls == {c \in SendCalls : ~c.reply.ok}

ChannelPrefix(channel) ==
    CASE channel = "sheet" -> <<"Google Sheets API error: ">>
      [] channel = "slack" -> <<"Slack notification failed: ">>
      [] channel = "telegram" -> <<"Telegram notification failed: ">>
      [] channel = "mail" -> <<"Gmail Email sending failed: ">>

GenericFallback(channel) ==
    CASE channel = "sheet" -> <<"Unknown GoogleSheets API error">>
      [] channel = "slack" -> <<"Unknown Slack API error">>
      [] channel = "telegram" -> <<"Unknown Telegram API error">>
      [] channel = "mail" -> <<"Unknown gmail sending error">>

\* The transport's own error text: its message, or the error printed.
TransportText(e) == IF ~Falsy(e.message) THEN <<e.message>> ELSE ErrorToString(e)

\* The messages the priority allows for error e: the structured field of an
\* object body when it has one; else the transport's text (a body that is
\* itself a text may stand for it); else the generic fallback.
BestMessages(channel, e) ==
    IF ~Falsy(StructuredMessage(e)) THEN {<<StructuredMessage(e)>>}
    ELSE (IF TransportText(e) # <<>> THEN {TransportText(e)}
          ELSE {GenericFallback(channel)})
         \cup (IF e.data.kind = "text" /\ ~Falsy(e.data.text)
               THEN {<<e.data.text>>} ELSE {})

\* C11: a send operation whose transport call fails raises the channel's prefix
\* followed by the best available message: the structured error field of the
\* response body if present, else the transport's own text, else the generic
\* fallback; with a structured body the message is never a meaningless one.
C11_BestMessageRaised ==
    \A c \in FailedCalls :
        /\ ~c.result.returned
        /\ \E m \in BestMessages(c.channel, c.reply.error) :
              c.result.thrown = ChannelPrefix(c.channel) \o m

\* C12: every call of a send-type operation invokes the transport exactly once,
\* whether that invocation succeeds or fails; a failure is raised to the caller
\* with no second attempt, and on success the transport's response is returned.
C12_SingleAttempt ==
    /\ \A c \in SendCalls :
          /\ c.invocations = 1
          /\ c.result.returned = c.reply.ok
          /\ c.reply.ok => c.result.data = c.reply.data
          /\ ~c.reply.ok => c.result.thrown # <<>>
    /\ adapterOp.op \in SendKinds => network = 1

C12_Witness ==
    \E c \in FailedCalls :
        /\ c.op = "ping"
        /\ c.invocations = 1
        /\ ~c.result.returned

C12_WitnessMail ==
    \E c \in SendCalls :
        /\ c.op = "sendEmail"
        /\ c.reply.ok
        /\ c.result.data = "queued"

---------------------------------------------------------------------------
(* Format checks of the webhook URL and of the bot token                   *)

\* A URL by its parts; a path segment made of letters and digits is one of
\* AlnumSegments.
AlnumSegments == {"services", "T0", "B0", "X0"}

GoodUrl == [scheme |-> "https", host |-> "hooks.slack.com",
            path |-> <<"services", "T0", "B0", "X0">>]

WebhookUrls ==
    {GoodUrl,
     [GoodUrl EXCEPT !.scheme = "http"],
     [GoodUrl EXCEPT !.path = <<"services", "T0", "B0">>],
     [GoodUrl EXCEPT !.host = "example.com"]}

\* /^https:\/\/hooks\.slack\.com\/services\/[A-Za-z0-9]+\/[A-Za-z0-9]+\/[A-Za-z0-9]+$/i
validateUrlFormat(url) ==
    /\ url.scheme = "https"
    /\ url.host = "hooks.slack.com"
    /\ Len(url.path) = 4
    /\ url.path[1] = "services"
    /\ \A k \in 2..4 : url.path[k] \in AlnumSegments

\* A token by its parts: whether the part before the colon is all digits, and
\* the length and the characters of the part after it.
GoodToken == [idDigits |-> TRUE, secretLen |-> 20, secretClean |-> TRUE]

Tokens ==
    {GoodToken,
     [GoodToken EXCEPT !.idDigits = FALSE],
     [GoodToken EXCEPT !.secretLen = 19],
     [GoodToken EXCEPT !.secretClean = FALSE]}

\* /^\d+:[A-Za-z0-9_-]{20,}$/
validateTokenFormat(token) ==
    /\ token.idDigits
    /\ token.secretClean
    /\ token.secretLen >= 20

---------------------------------------------------------------------------
(* NotificationHub                                                         *)

\* An adapter call issued by the hub. It is pending until the awaited promise
\* settles; a format check is settled at once.
Call(channel, method, purpose, request) ==
    [channel |-> channel, method |-> method, purpose |-> purpose,
     request |-> request, status |-> "pending"]

Checked(channel, method, valid) ==
    [channel |-> channel, method |-> method, purpose |-> "validate",
     request |-> <<>>, status |-> IF valid THEN "ok" ELSE "failed"]

\* The pending call (the last one issued) settles.
Settled(ok) == [log EXCEPT ![Len(log)].status = IF ok THEN "ok" ELSE "failed"]

\* The error thrown by the call now settling: which call raised it, and its text.
ErrorOf(text) == [by |-> Len(log), text |-> text]

Returned(op, value) ==
    [op |-> op, returned |-> TRUE, value |-> value, thrown |-> NoError]
Threw(op, error) ==
    [op |-> op, returned |-> FALSE, value |-> NoResults, thrown |-> error]

\* new NotificationHub(config) with every required field given: the four
\* adapters are constructed, none with defaults.
HubInit ==
    /\ SheetsIdle
    /\ NotifiersIdle
    /\ AdaptersIdle
    /\ \E url \in WebhookUrls, token \in Tokens :
        hub = [constructed |-> TRUE, webhookUrl |-> url, token |-> token,
               chatId |-> "chat-0"]
    /\ pc = "idle"
    /\ log = <<>>
    /\ caught = NoError
    /\ results = NoResults
    /\ stats = NoStats
    /\ outcome = NoOp

\* ---- processCustomerInquiry ----

ProcessCustomerInquiry ==
    /\ pc = "idle"
    /\ pc' = "pi_sheet"
    /\ UNCHANGED <<sheetVars, notifierVars, adapterVars, hub, log, caught, results, outcome, stats>>

\* 1. await this.sheets.addRow([timestamp, name, email, message])
IssueAddRow ==
    /\ pc = "pi_sheet"
    /\ log' = Append(log, Call("sheets", "addRow", "step",
                               <<"timestamp", "name", "email", "message">>))
    /\ pc' = "pi_sheet_await"
    /\ UNCHANGED <<sheetVars, notifierVars, adapterVars, hub, caught, results, outcome, stats>>

ResumeAddRow ==
    /\ pc = "pi_sheet_await"
    /\ \E out \in Outcomes :
        /\ log' = Settled(out.ok)
        /\ IF out.ok
           THEN pc' = "pi_mail" /\ caught' = caught
           ELSE pc' = "pi_catch" /\ caught' = ErrorOf(SheetsError(out.error))
    /\ UNCHANGED <<sheetVars, notifierVars, adapterVars, hub, results, outcome, stats>>

\* 2. await this.gmail.send({ to: email, subject, html })
IssueSendMail ==
    /\ pc = "pi_mail"
    /\ log' = Append(log, Call("gmail", "send", "step",
                               [to |-> "email", subject |-> "Inquiry Received",
                                html |-> "confirmation"]))
    /\ pc' = "pi_mail_await"
    /\ UNCHANGED <<sheetVars, notifierVars, adapterVars, hub, caught, results, outcome, stats>>

\* The mail step with its failure swallowed: the call goes on to the chat step.
ResumeSendMailSwallows ==
    /\ pc = "pi_mail_await"
    /\ \E out \in Outcomes :
        /\ log' = Settled(out.ok)
        /\ pc' = "pi_chat" /\ caught' = caught
    /\ UNCHANGED <<sheetVars, notifierVars, adapterVars, hub, results, outcome, stats>>

ResumeSendMail ==
    /\ pc = "pi_mail_await"
    /\ \E out \in Outcomes :
        /\ log' = Settled(out.ok)
        /\ IF out.ok
           THEN pc' = "pi_chat" /\ caught' = caught
           ELSE pc' = "pi_catch" /\ caught' = ErrorOf(GmailError(out.error))
    /\ UNCHANGED <<sheetVars, notifierVars, adapterVars, hub, results, outcome, stats>>

\* 3. await this.slack.send({ text, blocks })
IssueChatPost ==
    /\ pc = "pi_chat"
    /\ log' = Append(log, Call("slack", "send", "step",
                               [text |-> "New customer inquiry received!",
                                blocks |-> "inquiry blocks"]))
    /\ pc' = "pi_chat_await"
    /\ UNCHANGED <<sheetVars, notifierVars, adapterVars, hub, caught, results, outcome, stats>>

ResumeChatPost ==
    /\ pc = "pi_chat_await"
    /\ \E out \in Outcomes :
        /\ log' = Settled(out.ok)
        /\ IF out.ok
           THEN pc' = "pi_bot" /\ caught' = caught
           ELSE pc' = "pi_catch" /\ caught' = ErrorOf(SlackError(out.error))
    /\ UNCHANGED <<sheetVars, notifierVars, adapterVars, hub, results, outcome, stats>>

\* 4. await this.telegram.send({ text, parse_mode: 'Markdown' })
IssueBotAlert ==
    /\ pc = "pi_bot"
    /\ log' = Append(log, Call("telegram", "send", "step",
                               [text |-> <<"New Customer Inquiry">>,
                                parse_mode |-> "Markdown"]))
    /\ pc' = "pi_bot_await"
    /\ UNCHANGED <<sheetVars, notifierVars, adapterVars, hub, caught, results, outcome, stats>>

\* return { success: true, ... } once the fourth step has succeeded
ResumeBotAlert ==
    /\ pc = "pi_bot_await"
    /\ \E out \in Outcomes :
        /\ log' = Settled(out.ok)
        /\ IF out.ok
           THEN /\ pc' = "done"
                /\ caught' = caught
                /\ outcome' = Returned("processCustomerInquiry", [success |-> TRUE])
           ELSE /\ pc' = "pi_catch"
                /\ caught' = ErrorOf(TelegramError(out.error))
                /\ outcome' = outcome
    /\ UNCHANGED <<sheetVars, notifierVars, adapterVars, hub, results, stats>>

\* A catch block that takes the appended row back before rethrowing.
IssueErrorNotificationUndoes ==
    /\ pc = "pi_catch"
    /\ log' = Append(log, Call("sheets", "deleteRow", "undo", <<>>))
    /\ pc' = "pi_catch_await"
    /\ UNCHANGED <<sheetVars, notifierVars, adapterVars, hub, caught, results, outcome, stats>>

\* catch (error) { await this.telegram.send({ text: ...error.message, parse_mode }) ...
IssueErrorNotification ==
    /\ pc = "pi_catch"
    /\ log' = Append(log, Call("telegram", "send", "compensate",
                               [text |-> <<"Error Processing Inquiry">> \o caught.text,
                                parse_mode |-> "Markdown"]))
    /\ pc' = "pi_catch_await"
    /\ UNCHANGED <<sheetVars, notifierVars, adapterVars, hub, caught, results, outcome, stats>>

\* ... throw error }: reached only when the awaited send resolved; when it
\* rejected, its error leaves the catch block instead.
ResumeErrorNotification ==
    /\ pc = "pi_catch_await"
    /\ \E out \in Outcomes :
        /\ log' = Settled(out.ok)
        /\ outcome' = IF out.ok
                      THEN Threw("processCustomerInquiry", caught)
                      ELSE Threw("processCustomerInquiry",
                                 ErrorOf(TelegramError(out.error)))
    /\ pc' = "done"
    /\ UNCHANGED <<sheetVars, notifierVars, adapterVars, hub, caught, results, stats>>

\* ---- healthCheck ----

HealthCheck ==
    /\ pc = "idle"
    /\ results' = [gmail |-> FALSE, sheets |-> FALSE, slack |-> FALSE, telegram |-> FALSE]
    /\ pc' = "hc_gmail"
    /\ UNCHANGED <<sheetVars, notifierVars, adapterVars, hub, log, caught, outcome, stats>>

\* try { await this.gmail.verify(); results.gmail = true } catch { log }
IssueGmailVerify ==
    /\ pc = "hc_gmail"
    /\ log' = Append(log, Call("gmail", "verify", "probe", <<>>))
    /\ pc' = "hc_gmail_await"
    /\ UNCHANGED <<sheetVars, notifierVars, adapterVars, hub, caught, results, outcome, stats>>

\* The probe outside any try block: its error leaves healthCheck.
ResumeGmailVerifyUncaught ==
    /\ pc = "hc_gmail_await"
    /\ \E out \in Outcomes :
        /\ log' = Settled(out.ok)
        /\ IF GmailVerify(out).returned
           THEN /\ results' = [results EXCEPT !.gmail = TRUE]
                /\ pc' = "hc_sheets"
                /\ outcome' = outcome
           ELSE /\ results' = results
                /\ pc' = "done"
                /\ outcome' = Threw("healthCheck", ErrorOf(<<"verify failed">>))
    /\ UNCHANGED <<sheetVars, notifierVars, adapterVars, hub, caught, stats>>

\* One try block around all four probes: the first failure ends the checking.
ResumeGmailVerifyAborts ==
    /\ pc = "hc_gmail_await"
    /\ \E out \in Outcomes :
        /\ log' = Settled(out.ok)
        /\ IF GmailVerify(out).returned
           THEN results' = [results EXCEPT !.gmail = TRUE] /\ pc' = "hc_sheets"
           ELSE results' = results /\ pc' = "hc_return"
    /\ UNCHANGED <<sheetVars, notifierVars, adapterVars, hub, caught, outcome, stats>>

ResumeGmailVerify ==
    /\ pc = "hc_gmail_await"
    /\ \E out \in Outcomes :
        /\ log' = Settled(out.ok)
        /\ results' = IF GmailVerify(out).returned
                      THEN [results EXCEPT !.gmail = TRUE]
                      ELSE results
    /\ pc' = "hc_sheets"
    /\ UNCHANGED <<sheetVars, notifierVars, adapterVars, hub, caught, outcome, stats>>

\* try { results.sheets = await this.sheets.verify() } catch { log }
IssueSheetsVerify ==
    /\ pc = "hc_sheets"
    /\ log' = Append(log, Call("sheets", "verify", "probe", <<>>))
    /\ pc' = "hc_sheets_await"
    /\ UNCHANGED <<sheetVars, notifierVars, adapterVars, hub, caught, results, outcome, stats>>

ResumeSheetsVerify ==
    /\ pc = "hc_sheets_await"
    /\ \E out \in Outcomes :
        /\ log' = Settled(out.ok)
        /\ results' = IF SheetsVerify(out).returned
                      THEN [results EXCEPT !.sheets = (SheetsVerify(out).value = "true")]
                      ELSE results
    /\ pc' = "hc_slack"
    /\ UNCHANGED <<sheetVars, notifierVars, adapterVars, hub, caught, outcome, stats>>

\* The chat probe without its `if`: the ping is posted whatever the format.
CheckSlackAlwaysPings ==
    /\ pc = "hc_slack"
    /\ LET valid == validateUrlFormat(hub.webhookUrl)
           checked == Append(log, Checked("slack", "validateUrlFormat", valid))
       IN  /\ results' = [results EXCEPT !.slack = valid]
           /\ log' = Append(checked, Call("slack", "ping", "probe",
                                          [text |-> "Health check ping"]))
           /\ pc' = "hc_slack_await"
    /\ UNCHANGED <<sheetVars, notifierVars, adapterVars, hub, caught, outcome, stats>>

\* try { results.slack = this.slack.validateUrlFormat();
\*       if (results.slack) await this.slack.ping('Health check ping') } ...
CheckSlack ==
    /\ pc = "hc_slack"
    /\ LET valid == validateUrlFormat(hub.webhookUrl)
           checked == Append(log, Checked("slack", "validateUrlFormat", valid))
       IN  /\ results' = [results EXCEPT !.slack = valid]
           /\ IF valid
              THEN /\ log' = Append(checked, Call("slack", "ping", "probe",
                                                  [text |-> "Health check ping"]))
                   /\ pc' = "hc_slack_await"
              ELSE /\ log' = checked
                   /\ pc' = "hc_telegram"
    /\ UNCHANGED <<sheetVars, notifierVars, adapterVars, hub, caught, outcome, stats>>

\* ... catch { log; results.slack = false }
ResumeSlackPing ==
    /\ pc = "hc_slack_await"
    /\ \E out \in Outcomes :
        /\ log' = Settled(out.ok)
        /\ results' = IF out.ok THEN results ELSE [results EXCEPT !.slack = FALSE]
    /\ pc' = "hc_telegram"
    /\ UNCHANGED <<sheetVars, notifierVars, adapterVars, hub, caught, outcome, stats>>

\* try { results.telegram = this.telegram.validateTokenFormat();
\*       if (results.telegram) await this.telegram.ping('Health check ping') } ...
CheckTelegram ==
    /\ pc = "hc_telegram"
    /\ LET valid == validateTokenFormat(hub.token)
           checked == Append(log, Checked("telegram", "validateTokenFormat", valid))
       IN  /\ results' = [results EXCEPT !.telegram = valid]
           /\ IF valid
              THEN /\ log' = Append(checked, Call("telegram", "ping", "probe",
                                                  [text |-> "Health check ping"]))
                   /\ pc' = "hc_telegram_await"
              ELSE /\ log' = checked
                   /\ pc' = "hc_return"
    /\ UNCHANGED <<sheetVars, notifierVars, adapterVars, hub, caught, outcome, stats>>

\* ... catch { log; results.telegram = false }
ResumeTelegramPing ==
    /\ pc = "hc_telegram_await"
    /\ \E out \in Outcomes :
        /\ log' = Settled(out.ok)
        /\ results' = IF out.ok THEN results ELSE [results EXCEPT !.telegram = FALSE]
    /\ pc' = "hc_return"
    /\ UNCHANGED <<sheetVars, notifierVars, adapterVars, hub, caught, outcome, stats>>

\* return results
HealthCheckReturn ==
    /\ pc = "hc_return"
    /\ outcome' = Returned("healthCheck", results)
    /\ pc' = "done"
    /\ UNCHANGED <<sheetVars, notifierVars, adapterVars, hub, log, caught, results, stats>>

\* ---- sendDailyReport ----

Reports ==
    {[totalInquiries |-> 0, respondedCount |-> 0, pendingCount |-> 0],
     [totalInquiries |-> 3, respondedCount |-> 1, pendingCount |-> 2],
     [totalInquiries |-> 4, respondedCount |-> 3, pendingCount |-> 1]}

\* ((respondedCount / totalInquiries) * 100).toFixed(1)
responseRate(data) ==
    IF data.totalInquiries = 0
    THEN IF data.respondedCount = 0 THEN <<"NaN">> ELSE <<"Infinity">>
    ELSE LET tenths == (data.respondedCount * 2000 + data.totalInquiries)
                           \div (2 * data.totalInquiries)
         IN  <<ToString(tenths \div 10), ".", ToString(tenths % 10)>>

\* The four counters as the report shows them.
ReportFields(data) ==
    <<ToString(data.totalInquiries), ToString(data.respondedCount),
      ToString(data.pendingCount)>> \o responseRate(data) \o <<"%">>

SendDailyReport ==
    /\ pc = "idle"
    /\ \E data \in Reports : stats' = data
    /\ pc' = "dr_chat"
    /\ UNCHANGED <<sheetVars, notifierVars, adapterVars, hub, log, caught, results, outcome>>

\* await this.slack.send({ blocks: [header, section] })
IssueReportChat ==
    /\ pc = "dr_chat"
    /\ log' = Append(log, Call("slack", "send", "report",
                               [blocks |-> <<"Daily Customer Support Report">>
                                           \o ReportFields(stats)]))
    /\ pc' = "dr_chat_await"
    /\ UNCHANGED <<sheetVars, notifierVars, adapterVars, hub, caught, results, outcome, stats>>

\* The chat post awaited with its rejection ignored: the bot post follows anyway.
ResumeReportChatContinues ==
    /\ pc = "dr_chat_await"
    /\ \E out \in Outcomes :
        /\ log' = Settled(out.ok)
        /\ pc' = "dr_bot" /\ outcome' = outcome
    /\ UNCHANGED <<sheetVars, notifierVars, adapterVars, hub, caught, results, stats>>

\* No try block: a rejected post ends the call with the post's error.
ResumeReportChat ==
    /\ pc = "dr_chat_await"
    /\ \E out \in Outcomes :
        /\ log' = Settled(out.ok)
        /\ IF out.ok
           THEN pc' = "dr_bot" /\ outcome' = outcome
           ELSE /\ pc' = "done"
                /\ outcome' = Threw("sendDailyReport", ErrorOf(SlackError(out.error)))
    /\ UNCHANGED <<sheetVars, notifierVars, adapterVars, hub, caught, results, stats>>

\* await this.telegram.send({ text, parse_mode: 'Markdown' })
IssueReportBot ==
    /\ pc = "dr_bot"
    /\ log' = Append(log, Call("telegram", "send", "report",
                               [text |-> <<"Daily Support Report">> \o ReportFields(stats),
                                parse_mode |-> "Markdown"]))
    /\ pc' = "dr_bot_await"
    /\ UNCHANGED <<sheetVars, notifierVars, adapterVars, hub, caught, results, outcome, stats>>

ResumeReportBot ==
    /\ pc = "dr_bot_await"
    /\ \E out \in Outcomes :
        /\ log' = Settled(out.ok)
        /\ outcome' = IF out.ok
                      THEN Returned("sendDailyReport", NoResults)
                      ELSE Threw("sendDailyReport", ErrorOf(TelegramError(out.error)))
    /\ pc' = "done"
    /\ UNCHANGED <<sheetVars, notifierVars, adapterVars, hub, caught, results, stats>>

HubNext ==
    \/ ProcessCustomerInquiry
    \/ IssueAddRow \/ ResumeAddRow
    \/ IssueSendMail \/ ResumeSendMail
    \/ IssueChatPost \/ ResumeChatPost
    \/ IssueBotAlert \/ ResumeBotAlert
    \/ IssueErrorNotification \/ ResumeErrorNotification
    \/ HealthCheck
    \/ IssueGmailVerify \/ ResumeGmailVerify
    \/ IssueSheetsVerify \/ ResumeSheetsVerify
    \/ CheckSlack \/ ResumeSlackPing
    \/ CheckTelegram \/ ResumeTelegramPing
    \/ HealthCheckReturn
    \/ SendDailyReport
    \/ IssueReportChat \/ ResumeReportChat
    \/ IssueReportBot \/ ResumeReportBot

SpecHub == HubInit /\ [][HubNext]_vars

---------------------------------------------------------------------------
(* What the log says about a hub call                                      *)

Entries(purpose) == {i \in 1..Len(log) : log[i].purpose = purpose}
Steps == SelectSeq(log, LAMBDA c : c.purpose = "step")
FailedSteps == {i \in Entries("step") : log[i].status = "failed"}
StepOrder == <<"sheets", "gmail", "slack", "telegram">>

InquiryEnded == pc = "done" /\ outcome.op = "processCustomerInquiry"
HealthEnded == pc = "done" /\ outcome.op = "healthCheck"

\* C1: when a step of processCustomerInquiry fails, the compensating bot message
\* is attempted exactly once and, whether that message is delivered or not, the
\* caller receives the very error the failing step raised.
C1_OriginalErrorReachesCaller ==
    (InquiryEnded /\ FailedSteps # {}) =>
        /\ Cardinality(Entries("compensate")) = 1
        /\ ~outcome.returned
        /\ outcome.thrown = caught
        /\ outcome.thrown.by \in FailedSteps

\* C2: the steps are issued in the order sheet append, mail send, chat post, bot
\* alert; a step is issued only when every step before it has completed
\* successfully, none is issued twice, none after a failed one, and success is
\* returned only after all four succeeded.
C2_StepsInOrder ==
    /\ Len(Steps) <= 4
    /\ \A i \in 1..Len(Steps) :
          /\ Steps[i].channel = StepOrder[i]
          /\ i < Len(Steps) => Steps[i].status = "ok"
    /\ \A i \in Entries("compensate") : \A j \in Entries("step") : j < i
    /\ (InquiryEnded /\ outcome.returned) =>
          /\ Len(Steps) = 4
          /\ \A i \in 1..4 : Steps[i].status = "ok"

\* the mail step failed after the sheet step: nothing more was issued but the
\* compensating message
C2_Witness ==
    /\ InquiryEnded
    /\ Len(Steps) = 2
    /\ Steps[1].status = "ok"
    /\ Steps[2].status = "failed"
    /\ ~outcome.returned

C2_WitnessSuccess ==
    /\ InquiryEnded
    /\ outcome.returned
    /\ Len(Steps) = 4

\* The entry of the log for a channel's call of a method, if there is one.
Has(channel, method) ==
    \E i \in 1..Len(log) : log[i].channel = channel /\ log[i].method = method
Count(channel, method) ==
    Cardinality({i \in 1..Len(log) : log[i].channel = channel /\ log[i].method = method})
Succeeded(channel, method) ==
    \E i \in 1..Len(log) :
        /\ log[i].channel = channel
        /\ log[i].method = method
        /\ log[i].status = "ok"

HealthChannels == {"gmail", "sheets", "slack", "telegram"}

\* C3: healthCheck never throws: whatever the four probes do, the call returns
\* a map with exactly the entries gmail, sheets, slack, telegram, each a boolean.
C3_HealthCheckReturnsFourBooleans ==
    /\ outcome.op = "healthCheck" =>
          /\ outcome.returned
          /\ DOMAIN outcome.value = HealthChannels
          /\ \A c \in HealthChannels : outcome.value[c] \in BOOLEAN
    /\ (pc = "done" /\ Has("gmail", "verify")) => outcome.op = "healthCheck"

\* every probe that reaches the network failed, and the call still returned
C3_Witness ==
    /\ HealthEnded
    /\ outcome.returned
    /\ Len(log) = 6
    /\ \A i \in 1..Len(log) : log[i].purpose = "probe" => log[i].status = "failed"

\* C4: every channel is probed in every healthCheck, whatever the other probes
\* did, and a channel's entry is decided by its own probe alone.
C4_ProbesIndependent ==
    HealthEnded =>
        /\ Count("gmail", "verify") = 1
        /\ Count("sheets", "verify") = 1
        /\ Count("slack", "validateUrlFormat") = 1
        /\ Count("telegram", "validateTokenFormat") = 1
        /\ outcome.value.gmail = Succeeded("gmail", "verify")
        /\ outcome.value.sheets = Succeeded("sheets", "verify")
        /\ outcome.value.slack =
              (Succeeded("slack", "validateUrlFormat") /\ Succeeded("slack", "ping"))
        /\ outcome.value.telegram =
              (Succeeded("telegram", "validateTokenFormat") /\ Succeeded("telegram", "ping"))

\* the first probe failed and the others were still made and succeeded
C4_Witness ==
    /\ HealthEnded
    /\ ~outcome.value.gmail
    /\ outcome.value.sheets
    /\ outcome.value.slack
    /\ outcome.value.telegram

ReportEnded == pc = "done" /\ outcome.op = "sendDailyReport"

\* C13: sendDailyReport posts to the chat channel and then to the bot channel;
\* a failed post ends the call with that post's own error, no compensating
\* message is sent, and after a failed chat post the bot post is not attempted.
C13_ReportFailuresPropagate ==
    stats # NoStats =>
        /\ Len(log) <= 2
        /\ \A i \in 1..Len(log) : log[i].purpose = "report" /\ log[i].method = "send"
        /\ Len(log) >= 1 => log[1].channel = "slack"
        /\ Len(log) = 2 => log[1].status = "ok" /\ log[2].channel = "telegram"
        /\ pc = "done" =>
              /\ outcome.op = "sendDailyReport"
              /\ outcome.returned = (Len(log) = 2 /\ log[2].status = "ok")
              /\ ~outcome.returned =>
                    /\ outcome.thrown.by = Len(log)
                    /\ log[Len(log)].status = "failed"
                    /\ SubSeq(outcome.thrown.text, 1, 1)
                          = ChannelPrefix(log[Len(log)].channel)

\* the chat post failed: the call threw its error and nothing else was posted
C13_Witness ==
    /\ ReportEnded
    /\ Len(log) = 1
    /\ log[1].status = "failed"
    /\ outcome.thrown.by = 1

C13_WitnessBot ==
    /\ ReportEnded
    /\ Len(log) = 2
    /\ log[2].status = "failed"
    /\ outcome.thrown.by = 2

\* A step of the hub leaves every settled call as it is: what was sent stays sent.
KeepsSettled ==
    \A i \in 1..Len(log) :
        log[i].status # "pending" => (Len(log') >= i /\ log'[i] = log[i])

\* The calls an inquiry may issue: the four steps and the compensating message.
InquiryCalls ==
    {[channel |-> "sheets", method |-> "addRow", purpose |-> "step"],
     [channel |-> "gmail", method |-> "send", purpose |-> "step"],
     [channel |-> "slack", method |-> "send", purpose |-> "step"],
     [channel |-> "telegram", method |-> "send", purpose |-> "step"],
     [channel |-> "telegram", method |-> "send", purpose |-> "compensate"]}

\* C14: processCustomerInquiry is not transactional: when step k fails, the
\* steps 1..k-1 stay completed at the end of the call, no undo or rollback call
\* is issued to any channel, and the only call after the failure is the single
\* compensating bot message.
C14_NotTransactional ==
    /\ [][KeepsSettled]_vars
    /\ []((InquiryEnded /\ FailedSteps # {}) =>
            \E k \in 1..4 :
                /\ FailedSteps = {k}
                /\ Len(log) = k + 1
                /\ \A i \in 1..(k - 1) : log[i].purpose = "step" /\ log[i].status = "ok"
                /\ log[k + 1].purpose = "compensate"
                /\ \A i \in 1..Len(log) :
                      [channel |-> log[i].channel, method |-> log[i].method,
                       purpose |-> log[i].purpose] \in InquiryCalls)

\* the chat step failed: the appended row and the sent mail are still there
C14_Witness ==
    /\ InquiryEnded
    /\ FailedSteps = {3}
    /\ log[1].method = "addRow" /\ log[1].status = "ok"
    /\ log[2].channel = "gmail" /\ log[2].status = "ok"
    /\ Len(log) = 4

\* The format check of a channel, and whether the hub's configuration passes it.
FormatCheck(channel) ==
    IF channel = "slack" THEN "validateUrlFormat" ELSE "validateTokenFormat"
FormatValid(channel) ==
    IF channel = "slack" THEN validateUrlFormat(hub.webhookUrl)
    ELSE validateTokenFormat(hub.token)

\* The posts made to a channel: pings and sends.
Posts(channel) ==
    {i \in 1..Len(log) : log[i].channel = channel /\ log[i].method \in {"ping", "send"}}

\* C15: in healthCheck, for the chat and the bot channel, the format check runs
\* before any post to the channel and the ping is posted only when the check
\* returned true; the channel's entry is true exactly when the format is valid
\* and the ping succeeded, and with an invalid format nothing is posted to the
\* channel and its entry is false.
C15_FormatCheckedBeforePing ==
    results # NoResults =>
        \A channel \in {"slack", "telegram"} :
            /\ \A i \in Posts(channel) :
                  /\ log[i].method = "ping"
                  /\ i > 1
                  /\ log[i - 1].channel = channel
                  /\ log[i - 1].method = FormatCheck(channel)
                  /\ log[i - 1].status = "ok"
                  /\ FormatValid(channel)
            /\ Cardinality(Posts(channel)) <= 1
            /\ HealthEnded =>
                  /\ outcome.value[channel]
                        = (FormatValid(channel) /\ Succeeded(channel, "ping"))
                  /\ ~FormatValid(channel) =>
                        (Posts(channel) = {} /\ outcome.value[channel] = FALSE)

\* the webhook URL is malformed: the chat channel got no post and reads false,
\* while the bot channel was pinged
C15_Witness ==
    /\ HealthEnded
    /\ ~FormatValid("slack")
    /\ Posts("slack") = {}
    /\ outcome.value.slack = FALSE
    /\ Succeeded("telegram", "ping")

C15_WitnessPingFailed ==
    /\ HealthEnded
    /\ FormatValid("telegram")
    /\ Posts("telegram") # {}
    /\ outcome.value.telegram = FALSE

=============================================================================
